---- MODULE Spec2Model ----
(***************************************************************************)
(* Model of the two plotting utilities of the repository: the ratio        *)
(* builder (src/ratio.py) and the grid builder (src/2DHistogram.py), and   *)
(* of the head of the ntuplizer configuration (src/ntuplizer_cfg.py).      *)
(*                                                                         *)
(* Bin contents are IEEE-754 numbers, as in the program: python floats     *)
(* and ROOT's Double_t are binary64 (53 significant bits), a TH1F or TH2F  *)
(* stores Float_t (binary32, 24 significant bits).  A number is a record   *)
(* [sg, m, e] of value (-1)^sg * m * 2^e, with m a natural of exactly      *)
(* DblBits bits held as little-endian limbs of LimbBits bits (TLC's        *)
(* integers are 32 bits wide); zero is FZero.  Exponent range, infinities  *)
(* and NaN are not modelled: the contents used stay far inside the range.  *)
(***************************************************************************)
EXTENDS Integers, Sequences, FiniteSets, TLC

\* width of a python float / Double_t significand, and of a Float_t one
DblBits == 53
FltBits == 24
\* limbs of the naturals the arithmetic is done on
LimbBits == 15
Base == 2^LimbBits

-----------------------------------------------------------------------------
(* Naturals of any size: sequences of limbs, least significant first, no    *)
(* leading (high) zero limb; <<>> is 0.                                     *)

RECURSIVE BTrim(_)
BTrim(x) ==
    IF x = <<>> THEN <<>>
    ELSE IF x[Len(x)] = 0 THEN BTrim(SubSeq(x, 1, Len(x) - 1))
    ELSE x

RECURSIVE BFromInt(_)
BFromInt(n) == IF n = 0 THEN <<>> ELSE <<n % Base>> \o BFromInt(n \div Base)

\* number of bits of a limb value n (0 for 0)
LimbLen(n) == IF n = 0 THEN 0 ELSE CHOOSE k \in 1..LimbBits : 2^(k-1) <= n /\ n < 2^k

BBitLen(x) == IF x = <<>> THEN 0 ELSE (Len(x) - 1) * LimbBits + LimbLen(x[Len(x)])

\* bit i (0 = least significant) of x
BBit(x, i) ==
    LET k == (i \div LimbBits) + 1
    IN  IF k > Len(x) THEN 0 ELSE (x[k] \div 2^(i % LimbBits)) % 2

\* TRUE iff every bit of x below bit n is 0
BLowZero(x, n) ==
    /\ \A k \in 1..Len(x) : k <= n \div LimbBits => x[k] = 0
    /\ (n \div LimbBits) + 1 <= Len(x) => x[(n \div LimbBits) + 1] % 2^(n % LimbBits) = 0

RECURSIVE BCmpFrom(_, _, _)
BCmpFrom(x, y, k) ==
    IF k = 0 THEN 0
    ELSE IF x[k] > y[k] THEN 1
    ELSE IF x[k] < y[k] THEN -1
    ELSE BCmpFrom(x, y, k - 1)

\* -1, 0, 1 as x <, =, > y
BCmp(x, y) ==
    IF Len(x) > Len(y) THEN 1
    ELSE IF Len(x) < Len(y) THEN -1
    ELSE BCmpFrom(x, y, Len(x))

RECURSIVE BAddC(_, _, _)
BAddC(x, y, c) ==
    IF x = <<>> /\ y = <<>> THEN (IF c = 0 THEN <<>> ELSE <<c>>)
    ELSE LET a == IF x = <<>> THEN 0 ELSE Head(x)
             b == IF y = <<>> THEN 0 ELSE Head(y)
             s == a + b + c
         IN  <<s % Base>> \o BAddC(IF x = <<>> THEN <<>> ELSE Tail(x),
                                   IF y = <<>> THEN <<>> ELSE Tail(y), s \div Base)

BAdd(x, y) == BAddC(x, y, 0)

RECURSIVE BSubC(_, _, _)
BSubC(x, y, c) ==
    IF x = <<>> THEN <<>>
    ELSE LET b == IF y = <<>> THEN 0 ELSE Head(y)
             d == Head(x) - b - c
         IN  <<d % Base>> \o BSubC(Tail(x), IF y = <<>> THEN <<>> ELSE Tail(y),
                                   IF d < 0 THEN 1 ELSE 0)

\* x - y, for x >= y
BSub(x, y) == BTrim(BSubC(x, y, 0))

RECURSIVE BMulSmallC(_, _, _)
BMulSmallC(x, k, c) ==
    IF x = <<>> THEN (IF c = 0 THEN <<>> ELSE <<c>>)
    ELSE LET p == Head(x) * k + c
         IN  <<p % Base>> \o BMulSmallC(Tail(x), k, p \div Base)

\* x * k, for a limb value k
BMulSmall(x, k) == IF k = 0 THEN <<>> ELSE BMulSmallC(x, k, 0)

RECURSIVE BMul(_, _)
BMul(x, y) ==
    IF y = <<>> \/ x = <<>> THEN <<>>
    ELSE BAdd(BMulSmall(x, Head(y)),
              LET r == BMul(x, Tail(y)) IN IF r = <<>> THEN <<>> ELSE <<0>> \o r)

\* x * 2^n
BShl(x, n) ==
    IF x = <<>> THEN <<>>
    ELSE [i \in 1..(n \div LimbBits) |-> 0] \o BMulSmall(x, 2^(n % LimbBits))

\* x \div 2^n
BShr(x, n) ==
    LET q  == n \div LimbBits
        b  == n % LimbBits
        hi == IF q >= Len(x) THEN <<>> ELSE SubSeq(x, q + 1, Len(x))
    IN  BTrim([i \in 1..Len(hi) |->
                 (hi[i] \div 2^b)
                 + (IF i < Len(hi) THEN (hi[i+1] % 2^b) * 2^(LimbBits - b) ELSE 0)])

-----------------------------------------------------------------------------
(* IEEE-754 arithmetic, round to nearest, ties to even.                     *)

FZero == [sg |-> 0, m |-> <<>>, e |-> 0]

\* The number of p significant bits nearest to (-1)^sg * (M + t) * 2^E, where
\* M > 0 is a natural and 0 <= t < 1 is zero iff ~sticky (a sticky value has
\* more than p+1 bits in M), held with DblBits bits.
FRound(sg, M, E, sticky, p) ==
    LET L  == BBitLen(M)
        sh == L - p
    IN  IF sh <= 0
        THEN [sg |-> sg, m |-> BShl(M, DblBits - L), e |-> E - (DblBits - L)]
        ELSE LET q    == BShr(M, sh)
                 half == BBit(M, sh - 1) = 1
                 low  == sticky \/ ~BLowZero(M, sh - 1)
                 up   == half /\ (low \/ BBit(q, 0) = 1)
                 q1   == IF up THEN BAdd(q, <<1>>) ELSE q
                 L1   == BBitLen(q1)
             IN  [sg |-> sg,
                  m  |-> IF L1 > DblBits THEN BShr(q1, L1 - DblBits)
                                         ELSE BShl(q1, DblBits - L1),
                  e  |-> E + sh - (DblBits - L1)]

\* the double of an integer
FInt(n) ==
    IF n = 0 THEN FZero
    ELSE FRound(IF n < 0 THEN 1 ELSE 0, BFromInt(IF n < 0 THEN -n ELSE n), 0, FALSE, DblBits)

\* a * b in double precision
FMul(a, b) ==
    IF a = FZero \/ b = FZero THEN FZero
    ELSE FRound((a.sg + b.sg) % 2, BMul(a.m, b.m), a.e + b.e, FALSE, DblBits)

\* one step of binary long division by d: the next quotient bit is shifted into
\* q, the remainder is reduced and doubled
FDivStep(qr, d) ==
    LET ge == BCmp(qr[2], d) >= 0
        r1 == IF ge THEN BSub(qr[2], d) ELSE qr[2]
    IN  <<BAdd(BMulSmall(qr[1], 2), IF ge THEN <<1>> ELSE <<>>), BMulSmall(r1, 2)>>

\* <<q, r>> after n more steps (the test on Len(qr) has qr evaluated at each
\* step, which keeps the evaluation flat)
RECURSIVE FDivLoop(_, _, _)
FDivLoop(qr, d, n) ==
    IF Len(qr) = 2 /\ n = 0 THEN qr ELSE FDivLoop(FDivStep(qr, d), d, n - 1)

\* a / b in double precision, b # 0
FDiv(a, b) ==
    IF a = FZero THEN FZero
    ELSE LET qr == FDivLoop(<<<<>>, a.m>>, b.m, DblBits + 3)
         IN  FRound((a.sg + b.sg) % 2, qr[1], a.e - b.e - (DblBits + 2),
                    qr[2] # <<>>, DblBits)

\* Float_t(x): the value a TH1F or TH2F cell holds after x is stored in it
FToFloat(x) == IF x = FZero THEN FZero ELSE FRound(x.sg, x.m, x.e, FALSE, FltBits)

\* a > 0
FPos(a) == a # FZero /\ a.sg = 0

FOne == FInt(1)

-----------------------------------------------------------------------------
(* Histograms (ROOT's TH1F / TH1D / TH2F as the program uses them).         *)

\* python's None, a null TObject pointer
None == [kind |-> "None"]

\* UpdateBinContent: a TH1F / TH2F cell holds a Float_t, a TH1D cell a Double_t
StoreAs(kind, x) == IF kind \in {"TH1F", "TH2F"} THEN FToFloat(x) ELSE x

\* A one-dimensional histogram of nb bins: cell 0 is the underflow, cells
\* 1..nb the bins, cell nb+1 the overflow; lab[i] is bin i's label ("" if
\* none); dir is the file the object belongs to (None once detached).
TH1(kind, xmin, xmax, labels, cells, dir) ==
    [kind |-> kind, nb |-> Len(labels), xmin |-> xmin, xmax |-> xmax,
     lab |-> labels, dir |-> dir,
     c |-> [i \in 0..(Len(labels) + 1) |-> StoreAs(kind, FInt(cells[i + 1]))]]

\* TH1::GetBinContent(bin): out-of-range bins read the under/overflow cell
GetBinContent(h, bin) ==
    h.c[IF bin < 0 THEN 0 ELSE IF bin > h.nb + 1 THEN h.nb + 1 ELSE bin]

\* TAxis::GetBinLabel(bin)
GetBinLabel(h, bin) == IF bin \in 1..h.nb THEN h.lab[bin] ELSE ""

\* hist.Clone(...) followed by SetDirectory(0)
CloneDetached(h) == [h EXCEPT !.dir = None]

\* TH1::Scale(c1): every cell, under/overflow included, becomes c1 * content
Scale(h, c1) == [h EXCEPT !.c = [i \in DOMAIN h.c |-> StoreAs(h.kind, FMul(c1, h.c[i]))]]

\* TH1::Divide(h2) on h: refused (h unchanged) when the bin counts differ;
\* otherwise every cell becomes c0 / c1, or 0 where c1 is 0
Divide(h, h2) ==
    IF h.nb # h2.nb THEN h
    ELSE [h EXCEPT !.c = [i \in DOMAIN h.c |->
              IF h2.c[i] # FZero THEN StoreAs(h.kind, FDiv(h.c[i], h2.c[i]))
              ELSE FZero]]

-----------------------------------------------------------------------------
(* Strings the program takes apart are sequences of characters.             *)

Chars ==
    [s \in {"0p1mm", "1mm", "1000mm", "10000mm", "10mm", "100mm", "0p01mm", "1p5mm",
            "p5mm", ""} |->
        CASE s = "0p1mm"   -> <<"0", "p", "1", "m", "m">>
          [] s = "1mm"     -> <<"1", "m", "m">>
          [] s = "1000mm"  -> <<"1", "0", "0", "0", "m", "m">>
          [] s = "10000mm" -> <<"1", "0", "0", "0", "0", "m", "m">>
          [] s = "10mm"    -> <<"1", "0", "m", "m">>
          [] s = "100mm"   -> <<"1", "0", "0", "m", "m">>
          [] s = "0p01mm"  -> <<"0", "p", "0", "1", "m", "m">>
          [] s = "1p5mm"   -> <<"1", "p", "5", "m", "m">>
          [] s = "p5mm"    -> <<"p", "5", "m", "m">>
          [] s = ""        -> <<>>]

\* TRUE iff old occurs in s at position i
OccursAt(s, old, i) ==
    /\ i + Len(old) - 1 <= Len(s)
    /\ \A k \in 1..Len(old) : s[i + k - 1] = old[k]

\* str.replace(old, new) from position i on: leftmost occurrences, not overlapping
RECURSIVE ReplaceFrom(_, _, _, _)
ReplaceFrom(s, old, new, i) ==
    IF i > Len(s) THEN <<>>
    ELSE IF OccursAt(s, old, i) THEN new \o ReplaceFrom(s, old, new, i + Len(old))
    ELSE <<s[i]>> \o ReplaceFrom(s, old, new, i + 1)

Replace(s, old, new) == ReplaceFrom(s, old, new, 1)

-----------------------------------------------------------------------------
(* Files.  A file of the ntuples directory is a record [st, objs]: st is    *)
(* "missing" (filepath.exists() is false), "null" (the file cannot be      *)
(* opened: TFile.Open returns a null pointer), "zombie" (the file opens    *)
(* but is not a ROOT file: TFile.Open builds a zombie TFile, deletes it,   *)
(* which releases the descriptor, and returns a null pointer) or "ok";     *)
(* objs maps the <<directory, name>> of each object of an "ok" file to its *)
(* histogram.  Only an Open of an "ok" file leaves a handle to close.      *)

MiniDir == "HSCPMiniAODAnalyzer"
FullDir == "HSCPFullAODAnalyzer"

\* the characters of the digits
DigitChar == <<"0", "1", "2", "3", "4", "5", "6", "7", "8", "9">>

\* the digits of n >= 0, most significant first
RECURSIVE Digits(_)
Digits(n) == IF n < 10 THEN <<DigitChar[n + 1]>>
             ELSE Digits(n \div 10) \o <<DigitChar[(n % 10) + 1]>>

\* an int in an f-string: format(n, "")
Decimal(n) == IF n < 0 THEN <<"-">> \o Digits(-n) ELSE Digits(n)

\* construct_filename with the two masses exchanged
construct_filename_swapped(gluino_mass, neutralino_mass, ctau, decay_type, era) ==
    <<"gluino">> \o Decimal(neutralino_mass) \o <<"_chi10">> \o Decimal(gluino_mass)
        \o <<"_", ctau, "_", decay_type, "_", era, ".root">>

\* ratio builder, construct_filename: the pieces of the f-string, in order
construct_filename(gluino_mass, neutralino_mass, ctau, decay_type, era) ==
    <<"gluino">> \o Decimal(gluino_mass) \o <<"_chi10">> \o Decimal(neutralino_mass)
        \o <<"_", ctau, "_", decay_type, "_", era, ".root">>

\* grid builder, construct_filename
grid_construct_filename(gluino_mass, neutralino_mass, ctau, decay_type, era) ==
    <<"gluino">> \o Decimal(gluino_mass) \o <<"_chi10">> \o Decimal(neutralino_mass)
        \o <<"_", ctau, "_", decay_type, "_", era, ".root">>

\* root_file.Get(full_hist_name)
Get(file, dir, hist_name) ==
    IF <<dir, hist_name>> \in DOMAIN file.objs THEN file.objs[<<dir, hist_name>>] ELSE None

\* the state of file filename in the file system fsys
FileState(fsys, filename) ==
    IF filename \in DOMAIN fsys THEN fsys[filename] ELSE [st |-> "missing", objs |-> <<>>]

-----------------------------------------------------------------------------
(* The loaders.  A call returns [hist, out, ev]: the histogram or None, the *)
(* lines printed, and the file operations done, in order.                   *)

\* the normalization reading the event count from bin 0 (the underflow cell)
normalize_by_bin0(hist_clone) ==
    LET eventCount == GetBinContent(hist_clone, 0)
    IN  IF FPos(eventCount)
        THEN [hist |-> Scale(hist_clone, FDiv(FOne, eventCount)), out |-> <<>>]
        ELSE [hist |-> hist_clone, out |-> <<"Warning: has zero events, cannot normalize">>]

\* the normalization treating a first bin that is not positive as a failed load
normalize_or_fail(hist_clone) ==
    LET eventCount == GetBinContent(hist_clone, 1)
    IN  IF FPos(eventCount)
        THEN [hist |-> Scale(hist_clone, FDiv(FOne, eventCount)), out |-> <<>>]
        ELSE [hist |-> None, out |-> <<"Warning: has zero events, cannot normalize">>]

\* ratio builder, load_histogram: the normalization of the clone
\* (eventCount = GetBinContent(1); Scale(1.0 / eventCount) if eventCount > 0)
normalize(hist_clone) ==
    LET eventCount == GetBinContent(hist_clone, 1)
    IN  IF FPos(eventCount)
        THEN [hist |-> Scale(hist_clone, FDiv(FOne, eventCount)), out |-> <<>>]
        ELSE [hist |-> hist_clone, out |-> <<"Warning: has zero events, cannot normalize">>]

\* the loader returning from the name-not-found path without root_file.Close()
ratio_load_histogram_no_close(fsys, filename, hist_name) ==
    LET file == FileState(fsys, filename)
        st   == file.st
    IN  IF st = "missing"
        THEN [hist |-> None, out |-> <<"Error: File not found">>, ev |-> <<>>]
        ELSE IF st \in {"null", "zombie"}
        THEN [hist |-> None, out |-> <<"Error: Cannot open file">>,
              ev |-> <<<<"Open", filename, st>>>>]
        ELSE LET mini == Get(file, MiniDir, hist_name)
                 hist == IF mini # None THEN mini ELSE Get(file, FullDir, hist_name)
             IN  IF hist = None
                 THEN [hist |-> None, out |-> <<"Error: Histogram not found">>,
                       ev |-> <<<<"Open", filename, "ok">>>>]
                 ELSE LET n == normalize(CloneDetached(hist))
                      IN  [hist |-> n.hist, out |-> n.out,
                           ev |-> <<<<"Open", filename, "ok">>, <<"Close", filename>>>>]

\* ratio builder, HistogramRatioPlotter.load_histogram
ratio_load_histogram(fsys, filename, hist_name) ==
    LET file == FileState(fsys, filename)
        st   == file.st
    IN  IF st = "missing"
        THEN [hist |-> None, out |-> <<"Error: File not found">>, ev |-> <<>>]
        ELSE IF st \in {"null", "zombie"}
        THEN [hist |-> None, out |-> <<"Error: Cannot open file">>,
              ev |-> <<<<"Open", filename, st>>>>]
        ELSE LET mini == Get(file, MiniDir, hist_name)
                 hist == IF mini # None THEN mini ELSE Get(file, FullDir, hist_name)
             IN  IF hist = None
                 THEN [hist |-> None, out |-> <<"Error: Histogram not found">>,
                       ev |-> <<<<"Open", filename, "ok">>, <<"Close", filename>>>>]
                 ELSE LET n == normalize(CloneDetached(hist))
                      IN  [hist |-> n.hist, out |-> n.out,
                           ev |-> <<<<"Open", filename, "ok">>, <<"Close", filename>>>>]

\* grid builder, Histogram2DPlotter.load_histogram
grid_load_histogram(fsys, filename, hist_name) ==
    LET file == FileState(fsys, filename)
        st   == file.st
    IN  IF st = "missing"
        THEN [hist |-> None, out |-> <<"Error: File not found">>, ev |-> <<>>]
        ELSE IF st \in {"null", "zombie"}
        THEN [hist |-> None, out |-> <<"Error: Cannot open file">>,
              ev |-> <<<<"Open", filename, st>>>>]
        ELSE LET hist == Get(file, MiniDir, hist_name)
             IN  IF hist = None
                 THEN [hist |-> None, out |-> <<"Error: Histogram not found">>,
                       ev |-> <<<<"Open", filename, "ok">>, <<"Close", filename>>>>]
                 ELSE [hist |-> CloneDetached(hist), out |-> <<>>,
                       ev |-> <<<<"Open", filename, "ok">>, <<"Close", filename>>>>]

-----------------------------------------------------------------------------
(* The transforms.                                                          *)

\* create_ratio_plot with the operands of Divide exchanged
create_ratio_plot_swapped(hist1, hist2) ==
    IF hist1 = None \/ hist2 = None THEN None
    ELSE Divide(CloneDetached(hist2), hist1)

\* ratio builder, create_ratio_plot: hist1.Clone(...) divided by hist2
create_ratio_plot(hist1, hist2) ==
    IF hist1 = None \/ hist2 = None THEN None
    ELSE Divide(CloneDetached(hist1), hist2)

\* the label without the abbreviation of 10000mm
ctau_label_no_10k(ctau, decay_type) ==
    LET decay_label  == IF decay_type = "lightDecay" THEN "L" ELSE "H"
        ctau_display == IF ctau = "1000mm" THEN <<"1", "k">>
                        ELSE Replace(Replace(Chars[ctau], <<"m", "m">>, <<>>),
                                     <<"p">>, <<".">>)
    IN  ctau_display \o <<" ", "(", decay_label, ")">>

\* grid builder, main: the label of a loaded (decay_type, ctau)
ctau_label(ctau, decay_type) ==
    LET decay_label  == IF decay_type = "lightDecay" THEN "L" ELSE "H"
        ctau_display == IF ctau = "1000mm" THEN <<"1", "k">>
                        ELSE IF ctau = "10000mm" THEN <<"1", "0", "k">>
                        ELSE Replace(Replace(Chars[ctau], <<"m", "m">>, <<>>),
                                     <<"p">>, <<".">>)
    IN  ctau_display \o <<" ", "(", decay_label, ")">>

\* create_2d_histogram taking the X axis of the last histogram
create_2d_histogram_last_axis(histograms, ctau_labels) ==
    IF Len(histograms) = 0 THEN None
    ELSE LET first_hist == histograms[Len(histograms)]
             n_x_bins   == first_hist.nb
             n_ctau     == Len(histograms)
         IN  [kind |-> "TH2F", nx |-> n_x_bins, ny |-> n_ctau,
              xmin |-> first_hist.xmin, xmax |-> first_hist.xmax,
              xlab |-> [x \in 1..n_x_bins |-> GetBinLabel(first_hist, x)],
              ylab |-> [y \in 1..n_ctau |->
                          IF y <= Len(ctau_labels) THEN ctau_labels[y] ELSE <<>>],
              c |-> [b \in (0..(n_x_bins + 1)) \X (0..(n_ctau + 1)) |->
                       IF b[1] \in 1..n_x_bins /\ b[2] \in 1..n_ctau
                       THEN StoreAs("TH2F", GetBinContent(histograms[b[2]], b[1]))
                       ELSE FZero]]

\* create_2d_histogram filling row ctau_idx instead of row ctau_idx + 1
create_2d_histogram_row0(histograms, ctau_labels) ==
    IF Len(histograms) = 0 THEN None
    ELSE LET first_hist == histograms[1]
             n_x_bins   == first_hist.nb
             n_ctau     == Len(histograms)
         IN  [kind |-> "TH2F", nx |-> n_x_bins, ny |-> n_ctau,
              xmin |-> first_hist.xmin, xmax |-> first_hist.xmax,
              xlab |-> [x \in 1..n_x_bins |-> GetBinLabel(first_hist, x)],
              ylab |-> [y \in 1..n_ctau |->
                          IF y <= Len(ctau_labels) THEN ctau_labels[y] ELSE <<>>],
              c |-> [b \in (0..(n_x_bins + 1)) \X (0..(n_ctau + 1)) |->
                       IF b[1] \in 1..n_x_bins /\ b[2] \in 0..(n_ctau - 1)
                       THEN StoreAs("TH2F", GetBinContent(histograms[b[2] + 1], b[1]))
                       ELSE FZero]]

\* grid builder, create_2d_histogram: a TH2F of n_x_bins columns (the first
\* histogram's) and one row per histogram; cell <<x, y>>, 0 until set
create_2d_histogram(histograms, ctau_labels) ==
    IF Len(histograms) = 0 THEN None
    ELSE LET first_hist == histograms[1]
             n_x_bins   == first_hist.nb
             n_ctau     == Len(histograms)
         IN  [kind |-> "TH2F", nx |-> n_x_bins, ny |-> n_ctau,
              xmin |-> first_hist.xmin, xmax |-> first_hist.xmax,
              xlab |-> [x \in 1..n_x_bins |-> GetBinLabel(first_hist, x)],
              ylab |-> [y \in 1..n_ctau |->
                          IF y <= Len(ctau_labels) THEN ctau_labels[y] ELSE <<>>],
              c |-> [b \in (0..(n_x_bins + 1)) \X (0..(n_ctau + 1)) |->
                       IF b[1] \in 1..n_x_bins /\ b[2] \in 1..n_ctau
                       THEN StoreAs("TH2F", GetBinContent(histograms[b[2]], b[1]))
                       ELSE FZero]]

-----------------------------------------------------------------------------
(* Inputs: the command line and the files it names.                         *)

\* the defaults of --hist-name, --gluino-mass, --neutralino-mass, --era
HistName == "EventCutFlow"
GluinoMass == 1800
NeutralinoMass == 1300
Era == "130X_mcRun3_2023_realistic_postBPix_v2"

\* longest --ctaus list of a grid run
MaxCtaus == 2

CutFlow3 == <<"AllEvents", "Trigger", "Selected">>
CutFlow4 == <<"AllEvents", "Trigger", "Vertex", "Selected">>

\* Histograms as the analyzer wrote them, still owned by their file.  Cells
\* are <<underflow, bins..., overflow>>.
hEx1   == TH1("TH1D", 0, 4, CutFlow4, <<0, 100, 50, 25, 10, 0>>, "file")
hEx2   == TH1("TH1D", 0, 4, CutFlow4, <<0, 100, 40, 20, 5, 0>>, "file")
h49D   == TH1("TH1D", 0, 3, CutFlow3, <<0, 49, 7, 5, 1>>, "file")
h49F   == TH1("TH1F", 0, 3, CutFlow3, <<0, 49, 7, 5, 1>>, "file")
h3D    == TH1("TH1D", 0, 3, CutFlow3, <<0, 3, 5, 0, 0>>, "file")
hZero  == TH1("TH1D", 0, 3, CutFlow3, <<0, 0, 4, 2, 0>>, "file")
hNeg   == TH1("TH1D", 0, 3, CutFlow3, <<0, -2, 4, 1, 0>>, "file")
h2bins == TH1("TH1D", 0, 2, <<"AllEvents", "">>, <<0, 10, 4, 9>>, "file")
hBig   == TH1("TH1D", 0, 3, <<"", "", "">>, <<0, 16777217, 3, 1, 0>>, "file")
hF     == TH1("TH1F", 0, 3, CutFlow3, <<0, 120, 60, 30, 0>>, "file")

Missing   == [st |-> "missing", objs |-> <<>>]
NullFile  == [st |-> "null", objs |-> <<>>]
Zombie    == [st |-> "zombie", objs |-> <<>>]
EmptyFile == [st |-> "ok", objs |-> <<>>]
InMini(h) == [st |-> "ok", objs |-> (<<MiniDir, HistName>> :> h)]
InFull(h) == [st |-> "ok", objs |-> (<<FullDir, HistName>> :> h)]
InBoth(h, h2) ==
    [st |-> "ok", objs |-> (<<MiniDir, HistName>> :> h) @@ (<<FullDir, HistName>> :> h2)]

\* what a file a ratio run names can be
RatioFiles ==
    {Missing, NullFile, Zombie, EmptyFile, InFull(h49D), InBoth(hEx1, h3D)}
    \cup {InMini(h) : h \in {hEx1, hEx2, h49D, h49F, h3D, hZero, hNeg, h2bins}}

\* what a file a grid run names can be
GridFiles ==
    {Missing, Zombie, InFull(hF), InMini(hF), InMini(hBig), InMini(h2bins)}

\* --y-range split at its commas (<<>> for the empty string)
YRanges == {<<"1", "0.1", "0.01">>, <<>>, <<"1", "abc">>}
\* float(x) accepts x
IsFloat(x) == x \in {"1", "0.1", "0.01"}

RatioArgs ==
    [prog : {"ratio"}, ctau1 : {"0p1mm", "10000mm"}, ctau2 : {"0p1mm", "10000mm"},
     decay_type : {"lightDecay", "heavyDecay"}, y_range : YRanges]

CtauOrder == <<"0p1mm", "1000mm", "10000mm", "1mm">>
CtauLists ==
    {l \in {SubSeq(CtauOrder, 1, n) : n \in 1..Len(CtauOrder)} \cup {<<"1000mm", "1000mm">>} :
        Len(l) <= MaxCtaus}

GridArgs == [prog : {"grid"}, ctaus : CtauLists,
             decay_types : {"lightDecay", "heavyDecay", "both"}]

\* grid builder, main: the decay types of --decay-types
decay_types_of(a) ==
    IF a.decay_types = "both" THEN <<"lightDecay", "heavyDecay">> ELSE <<a.decay_types>>

\* the files a run with arguments a names
NamedFiles(a) ==
    IF a.prog = "ratio"
    THEN {construct_filename(GluinoMass, NeutralinoMass, c, a.decay_type, Era) :
             c \in {a.ctau1, a.ctau2}}
    ELSE {grid_construct_filename(GluinoMass, NeutralinoMass, a.ctaus[k], decay_types_of(a)[d], Era) :
             k \in 1..Len(a.ctaus), d \in 1..Len(decay_types_of(a))}

-----------------------------------------------------------------------------
(* State.                                                                    *)

VARIABLES
    args,         \* the parsed command line
    fs,           \* the ntuples directory: file name -> file
    dirs,         \* which of base_dir ("base") and base_dir/plots ("plots") exist
    pc,           \* where main is
    y_range,      \* ratio builder: the parsed --y-range
    hist1, hist2, \* ratio builder: numerator and denominator
    ratio_hist,   \* ratio builder: the ratio
    di, ci,       \* grid builder: positions of the two loops
    histograms,   \* grid builder: the histograms collected
    valid_labels, \* grid builder: their labels
    hist_2d,      \* grid builder: the grid
    console,      \* the lines printed
    events,       \* loads, file operations, transforms and renders, in order
    plots,        \* the image files written
    status,       \* "running", or the exit status "0" / "1"
    GTAG,         \* ntuplizer configuration: the global tag selected
    process       \* ntuplizer configuration: "undefined", or the name of the cms.Process

inputs == <<args, fs>>
ratio_vars == <<y_range, hist1, hist2, ratio_hist>>
grid_vars == <<di, ci, histograms, valid_labels, hist_2d>>
cfg_vars == <<GTAG, process>>
vars == <<args, fs, dirs, pc, y_range, hist1, hist2, ratio_hist, di, ci, histograms,
          valid_labels, hist_2d, console, events, plots, status, GTAG, process>>

Init ==
    /\ args \in RatioArgs \cup GridArgs
    /\ dirs \in {{}, {"base"}, {"base", "plots"}}
    /\ fs \in IF "base" \notin dirs THEN {[f \in NamedFiles(args) |-> Missing]}
              ELSE [NamedFiles(args) -> IF args.prog = "ratio" THEN RatioFiles ELSE GridFiles]
    /\ pc = IF args.prog = "ratio" THEN "parse" ELSE "construct"
    /\ y_range = None
    /\ hist1 = None /\ hist2 = None /\ ratio_hist = None
    /\ di = 1 /\ ci = 1
    /\ histograms = <<>> /\ valid_labels = <<>>
    /\ hist_2d = None
    /\ console = <<>> /\ events = <<>>
    /\ plots = {}
    /\ status = "running"
    /\ GTAG = "" /\ process = "undefined"

-----------------------------------------------------------------------------
(* main of the ratio builder.                                               *)

\* what a load_histogram call is recorded to have returned
Returned(hist) == IF hist = None THEN "None" ELSE "hist"

\* sys.exit(1) after printing msg
Abort(msg) ==
    /\ console' = Append(console, msg)
    /\ status' = "1"
    /\ pc' = "exit"

\* the parse of --y-range falling back to None on a malformed list
ratio_parse_y_range_lenient ==
    /\ pc = "parse"
    /\ y_range' = IF args.y_range # <<>> /\ \A k \in 1..Len(args.y_range) : IsFloat(args.y_range[k])
                  THEN [list |-> args.y_range] ELSE None
    /\ pc' = "construct"
    /\ UNCHANGED <<console, status>>
    /\ UNCHANGED <<inputs, cfg_vars, dirs, hist1, hist2, ratio_hist, grid_vars, events, plots>>

\* y_range = [float(x) for x in args.y_range.split(",")] if args.y_range else None
ratio_parse_y_range ==
    /\ pc = "parse"
    /\ IF args.y_range = <<>>
       THEN /\ y_range' = None
            /\ pc' = "construct"
            /\ UNCHANGED <<console, status>>
       ELSE IF \A k \in 1..Len(args.y_range) : IsFloat(args.y_range[k])
       THEN /\ y_range' = [list |-> args.y_range]
            /\ pc' = "construct"
            /\ UNCHANGED <<console, status>>
       ELSE /\ Abort("Error: --y-range must be a comma-separated list of numbers")
            /\ UNCHANGED y_range
    /\ UNCHANGED <<inputs, cfg_vars, dirs, hist1, hist2, ratio_hist, grid_vars, events, plots>>

\* self.plots_dir.mkdir(exist_ok=True): FileNotFoundError when base_dir is absent
mkdir_plots(next) ==
    IF "base" \in dirs
    THEN /\ dirs' = dirs \cup {"plots"}
         /\ pc' = next
         /\ UNCHANGED <<console, status>>
    ELSE /\ Abort("Traceback: FileNotFoundError")
         /\ UNCHANGED dirs

\* plotter = HistogramRatioPlotter()
HistogramRatioPlotter_init ==
    /\ pc = "construct" /\ args.prog = "ratio"
    /\ mkdir_plots("load1")
    /\ UNCHANGED <<inputs, cfg_vars, ratio_vars, grid_vars, events, plots>>

filename1 == construct_filename(GluinoMass, NeutralinoMass, args.ctau1, args.decay_type, Era)
filename2 == construct_filename(GluinoMass, NeutralinoMass, args.ctau2, args.decay_type, Era)

\* hist1 = plotter.load_histogram(filename1, args.hist_name)
ratio_load1 ==
    /\ pc = "load1"
    /\ LET r == ratio_load_histogram(fs, filename1, HistName)
       IN  /\ hist1' = r.hist
           /\ console' = console \o <<"Loading histograms:">> \o r.out
           /\ events' = events \o <<<<"load", filename1, Returned(r.hist)>>>> \o r.ev
    /\ pc' = "load2"
    /\ UNCHANGED <<inputs, cfg_vars, dirs, y_range, hist2, ratio_hist, grid_vars, plots, status>>

\* hist2 = plotter.load_histogram(filename2, args.hist_name)
ratio_load2 ==
    /\ pc = "load2"
    /\ LET r == ratio_load_histogram(fs, filename2, HistName)
       IN  /\ hist2' = r.hist
           /\ console' = console \o r.out
           /\ events' = events \o <<<<"load", filename2, Returned(r.hist)>>>> \o r.ev
    /\ pc' = "check"
    /\ UNCHANGED <<inputs, cfg_vars, dirs, y_range, hist1, ratio_hist, grid_vars, plots, status>>

\* the check of the loads looking at hist1 only
ratio_check_loaded_first_only ==
    /\ pc = "check"
    /\ IF hist1 = None
       THEN Abort("Error: Failed to load one or both histograms")
       ELSE pc' = "create" /\ UNCHANGED <<console, status>>
    /\ UNCHANGED <<inputs, cfg_vars, dirs, ratio_vars, grid_vars, events, plots>>

\* if not hist1 or not hist2: ... sys.exit(1)
ratio_check_loaded ==
    /\ pc = "check"
    /\ IF hist1 = None \/ hist2 = None
       THEN Abort("Error: Failed to load one or both histograms")
       ELSE pc' = "create" /\ UNCHANGED <<console, status>>
    /\ UNCHANGED <<inputs, cfg_vars, dirs, ratio_vars, grid_vars, events, plots>>

\* the divide step dividing hist1 itself instead of a clone of it
ratio_create_in_place ==
    /\ pc = "create" /\ args.prog = "ratio"
    /\ hist1' = IF hist1 = None \/ hist2 = None THEN hist1 ELSE Divide(hist1, hist2)
    /\ ratio_hist' = IF hist1 = None \/ hist2 = None THEN None ELSE hist1'
    /\ events' = Append(events, <<"create_ratio_plot">>)
    /\ IF ratio_hist' = None
       THEN Abort("Error: Failed to create ratio histogram")
       ELSE pc' = "save" /\ UNCHANGED <<console, status>>
    /\ UNCHANGED <<inputs, cfg_vars, dirs, y_range, hist2, grid_vars, plots>>

\* ratio_hist = plotter.create_ratio_plot(hist1, hist2, title), and its check
ratio_create ==
    /\ pc = "create" /\ args.prog = "ratio"
    /\ ratio_hist' = create_ratio_plot(hist1, hist2)
    /\ events' = Append(events, <<"create_ratio_plot">>)
    /\ IF ratio_hist' = None
       THEN Abort("Error: Failed to create ratio histogram")
       ELSE pc' = "save" /\ UNCHANGED <<console, status>>
    /\ UNCHANGED <<inputs, cfg_vars, dirs, y_range, hist1, hist2, grid_vars, plots>>

\* the auto-generated output name of the ratio builder
ratio_output_name ==
    <<"ratio_", HistName, "_gluino", GluinoMass, "_chi10", NeutralinoMass, "_",
      args.ctau1, "_vs_", args.ctau2, "_", args.decay_type>>

\* plotter.save_ratio_plot(...): draws clones of hist1 and hist2 and ratio_hist,
\* writes plots_dir/<output_name>.pdf; main then returns
ratio_save ==
    /\ pc = "save" /\ args.prog = "ratio"
    /\ IF hist1 = None \/ hist2 = None \/ ratio_hist = None
       THEN /\ console' = Append(console, "Error: One or more histograms are None")
            /\ UNCHANGED <<events, plots>>
       ELSE /\ plots' = plots \cup {ratio_output_name \o <<".pdf">>}
            /\ events' = Append(events, <<"save_ratio_plot">>)
            /\ console' = Append(console, "Comparison and ratio plot saved")
    /\ status' = "0"
    /\ pc' = "exit"
    /\ UNCHANGED <<inputs, cfg_vars, dirs, ratio_vars, grid_vars>>

-----------------------------------------------------------------------------
(* main of the grid builder.                                                *)

\* plotter = Histogram2DPlotter()
Histogram2DPlotter_init ==
    /\ pc = "construct" /\ args.prog = "grid"
    /\ mkdir_plots("loop")
    /\ UNCHANGED <<inputs, cfg_vars, ratio_vars, grid_vars, events, plots>>

\* the loop body appending the label whether or not the load succeeded
grid_load_next_label_always ==
    /\ pc = "loop"
    /\ di <= Len(decay_types_of(args))
    /\ LET decay_type == decay_types_of(args)[di]
           ctau       == args.ctaus[ci]
           filename   == grid_construct_filename(GluinoMass, NeutralinoMass, ctau, decay_type, Era)
           r          == grid_load_histogram(fs, filename, HistName)
       IN  /\ events' = events \o <<<<"load", filename, Returned(r.hist)>>>> \o r.ev
           /\ valid_labels' = Append(valid_labels, ctau_label(ctau, decay_type))
           /\ IF r.hist # None
              THEN /\ histograms' = Append(histograms, r.hist)
                   /\ console' = console \o <<"Loading">> \o r.out
              ELSE /\ console' = console \o <<"Loading">> \o r.out
                                   \o <<"Warning: Skipping due to loading failure">>
                   /\ UNCHANGED histograms
    /\ IF ci < Len(args.ctaus)
       THEN ci' = ci + 1 /\ di' = di
       ELSE ci' = 1 /\ di' = di + 1
    /\ UNCHANGED <<inputs, cfg_vars, dirs, pc, ratio_vars, hist_2d, plots, status>>

\* the loop body trying a failed load a second time
grid_load_next_retry ==
    /\ pc = "loop"
    /\ di <= Len(decay_types_of(args))
    /\ LET decay_type == decay_types_of(args)[di]
           ctau       == args.ctaus[ci]
           filename   == grid_construct_filename(GluinoMass, NeutralinoMass, ctau, decay_type, Era)
           r          == grid_load_histogram(fs, filename, HistName)
           call       == <<<<"load", filename, Returned(r.hist)>>>> \o r.ev
       IN  IF r.hist # None
           THEN /\ events' = events \o call
                /\ histograms' = Append(histograms, r.hist)
                /\ valid_labels' = Append(valid_labels, ctau_label(ctau, decay_type))
                /\ console' = console \o <<"Loading">> \o r.out
           ELSE /\ events' = events \o call \o call
                /\ console' = console \o <<"Loading">> \o r.out \o r.out
                                    \o <<"Warning: Skipping due to loading failure">>
                /\ UNCHANGED <<histograms, valid_labels>>
    /\ IF ci < Len(args.ctaus)
       THEN ci' = ci + 1 /\ di' = di
       ELSE ci' = 1 /\ di' = di + 1
    /\ UNCHANGED <<inputs, cfg_vars, dirs, pc, ratio_vars, hist_2d, plots, status>>

\* the loop body with a failed load ending the run
grid_load_next_fatal ==
    /\ pc = "loop"
    /\ di <= Len(decay_types_of(args))
    /\ LET decay_type == decay_types_of(args)[di]
           ctau       == args.ctaus[ci]
           filename   == grid_construct_filename(GluinoMass, NeutralinoMass, ctau, decay_type, Era)
           r          == grid_load_histogram(fs, filename, HistName)
       IN  /\ events' = events \o <<<<"load", filename, Returned(r.hist)>>>> \o r.ev
           /\ IF r.hist # None
              THEN /\ histograms' = Append(histograms, r.hist)
                   /\ valid_labels' = Append(valid_labels, ctau_label(ctau, decay_type))
                   /\ console' = console \o <<"Loading">> \o r.out
                   /\ UNCHANGED <<pc, status>>
              ELSE /\ console' = console \o <<"Loading">> \o r.out
                                   \o <<"Error: Loading failure">>
                   /\ status' = "1"
                   /\ pc' = "exit"
                   /\ UNCHANGED <<histograms, valid_labels>>
    /\ IF ci < Len(args.ctaus)
       THEN ci' = ci + 1 /\ di' = di
       ELSE ci' = 1 /\ di' = di + 1
    /\ UNCHANGED <<inputs, cfg_vars, dirs, ratio_vars, hist_2d, plots>>

\* one pass of the body of
\*   for decay_type in decay_types: for ctau in ctau_list: ...
grid_load_next ==
    /\ pc = "loop"
    /\ di <= Len(decay_types_of(args))
    /\ LET decay_type == decay_types_of(args)[di]
           ctau       == args.ctaus[ci]
           filename   == grid_construct_filename(GluinoMass, NeutralinoMass, ctau, decay_type, Era)
           r          == grid_load_histogram(fs, filename, HistName)
       IN  /\ events' = events \o <<<<"load", filename, Returned(r.hist)>>>> \o r.ev
           /\ IF r.hist # None
              THEN /\ histograms' = Append(histograms, r.hist)
                   /\ valid_labels' = Append(valid_labels, ctau_label(ctau, decay_type))
                   /\ console' = console \o <<"Loading">> \o r.out
              ELSE /\ console' = console \o <<"Loading">> \o r.out
                                   \o <<"Warning: Skipping due to loading failure">>
                   /\ UNCHANGED <<histograms, valid_labels>>
    /\ IF ci < Len(args.ctaus)
       THEN ci' = ci + 1 /\ di' = di
       ELSE ci' = 1 /\ di' = di + 1
    /\ UNCHANGED <<inputs, cfg_vars, dirs, pc, ratio_vars, hist_2d, plots, status>>

\* main without the check for an empty list of histograms
grid_check_loaded_unchecked ==
    /\ pc = "loop"
    /\ di > Len(decay_types_of(args))
    /\ console' = Append(console, "Successfully loaded")
    /\ pc' = "create"
    /\ UNCHANGED status
    /\ UNCHANGED <<inputs, cfg_vars, dirs, ratio_vars, grid_vars, events, plots>>

\* if len(histograms) == 0: ... sys.exit(1)
grid_check_loaded ==
    /\ pc = "loop"
    /\ di > Len(decay_types_of(args))
    /\ IF Len(histograms) = 0
       THEN Abort("Error: No histograms could be loaded successfully")
       ELSE /\ console' = Append(console, "Successfully loaded")
            /\ pc' = "create"
            /\ UNCHANGED status
    /\ UNCHANGED <<inputs, cfg_vars, dirs, ratio_vars, grid_vars, events, plots>>

\* hist_2d = plotter.create_2d_histogram(histograms, valid_labels, ...), and its check
grid_create ==
    /\ pc = "create" /\ args.prog = "grid"
    /\ hist_2d' = create_2d_histogram(histograms, valid_labels)
    /\ events' = Append(events, <<"create_2d_histogram">>)
    /\ IF hist_2d' = None
       THEN Abort("Error: Failed to create 2D histogram")
       ELSE pc' = "save" /\ UNCHANGED <<console, status>>
    /\ UNCHANGED <<inputs, cfg_vars, dirs, ratio_vars, di, ci, histograms, valid_labels, plots>>

RECURSIVE Join(_, _)
\* sep.join(l), as the pieces in order
Join(l, sep) ==
    IF Len(l) = 0 THEN <<>>
    ELSE IF Len(l) = 1 THEN <<l[1]>>
    ELSE <<l[1], sep>> \o Join(Tail(l), sep)

\* the auto-generated output name of the grid builder
grid_output_name ==
    <<"2D_", HistName, "_gluino", GluinoMass, "_chi10", NeutralinoMass, "_",
      IF Len(decay_types_of(args)) > 1 THEN "both" ELSE decay_types_of(args)[1], "_">>
    \o Join(args.ctaus, "_")

\* plotter.save_2d_plot(hist_2d, output_name, ...): writes
\* plots_dir/<output_name>.pdf; main then returns
grid_save ==
    /\ pc = "save" /\ args.prog = "grid"
    /\ IF hist_2d = None
       THEN /\ console' = Append(console, "Error: 2D histogram is None")
            /\ UNCHANGED <<events, plots>>
       ELSE /\ plots' = plots \cup {grid_output_name \o <<".pdf">>}
            /\ events' = Append(events, <<"save_2d_plot">>)
            /\ console' = Append(console, "2D histogram plot saved")
    /\ status' = "0"
    /\ pc' = "exit"
    /\ UNCHANGED <<inputs, cfg_vars, dirs, ratio_vars, grid_vars>>

-----------------------------------------------------------------------------
(* The runs of the two programs.                                            *)

Next ==
    \/ ratio_parse_y_range
    \/ HistogramRatioPlotter_init
    \/ ratio_load1
    \/ ratio_load2
    \/ ratio_check_loaded
    \/ ratio_create
    \/ ratio_save
    \/ Histogram2DPlotter_init
    \/ grid_load_next
    \/ grid_check_loaded
    \/ grid_create
    \/ grid_save

Spec == Init /\ [][Next]_vars

-----------------------------------------------------------------------------
(* The name and label builders on their own: a call of each builder's       *)
(* construct_filename and of the label code of the grid builder's loop, for *)
(* arguments the command lines can give.                                    *)

FnMasses == {0, 7, 1300, 1800, -5}
FnCtaus  == DOMAIN Chars
FnEras   == {Era, "130X_mcRun3_2023_realistic_v14"}

FnArgs == [prog : {"fn"}, gluino_mass : FnMasses, neutralino_mass : FnMasses,
           ctau : FnCtaus, decay_type : {"lightDecay", "heavyDecay"}, era : FnEras]

FnInit ==
    /\ args \in FnArgs
    /\ dirs = {"base", "plots"}
    /\ fs = <<>>
    /\ pc = "name"
    /\ y_range = None
    /\ hist1 = None /\ hist2 = None /\ ratio_hist = None
    /\ di = 1 /\ ci = 1
    /\ histograms = <<>> /\ valid_labels = <<>>
    /\ hist_2d = None
    /\ console = <<>> /\ events = <<>>
    /\ plots = {}
    /\ status = "running"
    /\ GTAG = "" /\ process = "undefined"

\* plotter.construct_filename(...) of the ratio builder and of the grid builder
call_construct_filename ==
    /\ pc = "name"
    /\ events' = <<<<"ratio", construct_filename(args.gluino_mass, args.neutralino_mass,
                                                args.ctau, args.decay_type, args.era)>>,
                   <<"grid", grid_construct_filename(args.gluino_mass, args.neutralino_mass,
                                                    args.ctau, args.decay_type, args.era)>>>>
    /\ pc' = "label"
    /\ UNCHANGED <<inputs, cfg_vars, dirs, ratio_vars, grid_vars, console, plots, status>>

\* the label code of the grid builder's loop for (args.decay_type, args.ctau)
call_ctau_label ==
    /\ pc = "label"
    /\ valid_labels' = Append(valid_labels, ctau_label(args.ctau, args.decay_type))
    /\ pc' = "exit"
    /\ UNCHANGED <<inputs, cfg_vars, dirs, ratio_vars, di, ci, histograms, hist_2d, console, events,
                   plots, status>>

FnNext ==
    \/ call_construct_filename
    \/ call_ctau_label

FnSpec == FnInit /\ [][FnNext]_vars

-----------------------------------------------------------------------------
(* The head of the ntuplizer configuration: the options, the selection of   *)
(* the global tag, the printed summary, the era check, and the process with *)
(* its conditions.  The framework's calls (VarParsing, xparser, cms.Process, *)
(* GlobalTag) are taken to return; the configuration runs inside the        *)
(* framework's environment, where CMSSW_VERSION and SCRAM_ARCH are set.      *)

\* the values of --year and --era tried: 2018 is the default year, '' the
\* default era; 2016 and "c" are values the era message does not list
CfgYears == {2016, 2017, 2018, 2022, 2023, 2024}
CfgEras  == {"", "A", "B", "C", "D", "E", "F", "G", "H", "I", "c"}

CfgArgs == [prog : {"cfg"}, isData : BOOLEAN, year : CfgYears, era : CfgEras]

\* the selection with the simulation of 2023 tagged for era D only
select_GTAG_mc2023_D_only(isData, year, era) ==
    IF isData
    THEN IF year = 2018 \/ year = 2017 THEN "106X_dataRun2_v36"
         ELSE IF year = 2024 THEN "150X_dataRun3_v2"
         ELSE IF year = 2023 THEN "130X_dataRun3_PromptAnalysis_v1"
         ELSE IF year = 2022
              THEN IF era \in {"C", "D", "E"} THEN "124X_dataRun3_v15"
                   ELSE IF era \in {"F", "G"} THEN "130X_dataRun3_PromptAnalysis_v1"
                   ELSE ""
         ELSE ""
    ELSE IF year = 2017 THEN "106X_mc2017_realistic_v10"
         ELSE IF year = 2018 THEN "106X_upgrade2018_realistic_v16_L1v1"
         ELSE IF year = 2024 THEN "150X_mcRun3_2024_realistic_v2"
         ELSE IF year = 2023
              THEN IF era = "D" THEN "130X_mcRun3_2023_realistic_postBPix_v2"
                   ELSE ""
         ELSE IF year = 2022
              THEN LET first == IF era \in {"C", "D"} THEN "130X_mcRun3_2022_realistic_v5"
                                ELSE ""
                   IN  IF era \in {"E", "F", "G"} THEN "130X_mcRun3_2022_realistic_postEE_v6"
                       ELSE first
         ELSE ""

\* GTAG = '' followed by the if / elif chains on isData, year and era
select_GTAG(isData, year, era) ==
    IF isData
    THEN IF year = 2018 \/ year = 2017 THEN "106X_dataRun2_v36"
         ELSE IF year = 2024 THEN "150X_dataRun3_v2"
         ELSE IF year = 2023 THEN "130X_dataRun3_PromptAnalysis_v1"
         ELSE IF year = 2022
              THEN IF era \in {"C", "D", "E"} THEN "124X_dataRun3_v15"
                   ELSE IF era \in {"F", "G"} THEN "130X_dataRun3_PromptAnalysis_v1"
                   ELSE ""
         ELSE ""
    ELSE IF year = 2017 THEN "106X_mc2017_realistic_v10"
         ELSE IF year = 2018 THEN "106X_upgrade2018_realistic_v16_L1v1"
         ELSE IF year = 2024 THEN "150X_mcRun3_2024_realistic_v2"
         ELSE IF year = 2023
              THEN IF era = "C" THEN "130X_mcRun3_2023_realistic_v14"
                   ELSE IF era = "D" THEN "130X_mcRun3_2023_realistic_postBPix_v2"
                   ELSE ""
         ELSE IF year = 2022
              THEN LET first == IF era \in {"C", "D"} THEN "130X_mcRun3_2022_realistic_v5"
                                ELSE ""
                   IN  IF era \in {"E", "F", "G"} THEN "130X_mcRun3_2022_realistic_postEE_v6"
                       ELSE first
         ELSE ""

\* the state after options.parseArguments() and the xparser constructor
CfgInit ==
    /\ args \in CfgArgs
    /\ dirs = {"base", "plots"}
    /\ fs = <<>>
    /\ pc = "gtag"
    /\ y_range = None
    /\ hist1 = None /\ hist2 = None /\ ratio_hist = None
    /\ di = 1 /\ ci = 1
    /\ histograms = <<>> /\ valid_labels = <<>>
    /\ hist_2d = None
    /\ console = <<>> /\ events = <<>>
    /\ plots = {}
    /\ status = "running"
    /\ GTAG = "" /\ process = "undefined"

\* GTAG = '' ; if options.isData: ... else: ...
cfg_select_GTAG ==
    /\ pc = "gtag"
    /\ GTAG' = select_GTAG(args.isData, args.year, args.era)
    /\ pc' = "print"
    /\ UNCHANGED <<inputs, dirs, ratio_vars, grid_vars, console, events, plots, status, process>>

\* the printed configuration; the line of the global tag is kept with its value
cfg_print ==
    /\ pc = "print"
    /\ console' = console \o <<"Global Tag        :", GTAG>>
    /\ pc' = "era"
    /\ UNCHANGED <<inputs, cfg_vars, dirs, ratio_vars, grid_vars, events, plots, status>>

\* if options.isData and options.era=='': raise RuntimeError(...)
cfg_check_era ==
    /\ pc = "era"
    /\ IF args.isData /\ args.era = ""
       THEN /\ console' = Append(console, "Traceback: RuntimeError")
            /\ status' = "1"
            /\ pc' = "exit"
       ELSE /\ pc' = "process"
            /\ UNCHANGED <<console, status>>
    /\ UNCHANGED <<inputs, cfg_vars, dirs, ratio_vars, grid_vars, events, plots>>

\* process = cms.Process("HSCPAnalysis") ... process.GlobalTag = GlobalTag(process.GlobalTag, GTAG, '')
\* the model of the configuration ends with the conditions set
cfg_process ==
    /\ pc = "process"
    /\ process' = "HSCPAnalysis"
    /\ events' = Append(events, <<"GlobalTag", GTAG>>)
    /\ pc' = "conditions"
    /\ UNCHANGED <<inputs, dirs, ratio_vars, grid_vars, console, plots, status, GTAG>>

CfgNext ==
    \/ cfg_select_GTAG
    \/ cfg_print
    \/ cfg_check_era
    \/ cfg_process

CfgSpec == CfgInit /\ [][CfgNext]_vars

-----------------------------------------------------------------------------
(* Vocabulary of the properties.                                            *)

\* the number of load_histogram calls made so far
NLoads == Cardinality({k \in 1..Len(events) : events[k][1] = "load"})

\* file f holds the requested name under directory prefix d
HasIn(f, d) == FileState(fs, f).st = "ok" /\ <<d, HistName>> \in DOMAIN FileState(fs, f).objs

\* the histogram the ratio builder's loader reads from file f (HasIn(f, _) holds)
Found(f) == IF HasIn(f, MiniDir) THEN FileState(fs, f).objs[<<MiniDir, HistName>>]
            ELSE FileState(fs, f).objs[<<FullDir, HistName>>]

\* the loads a ratio run has made: <<returned histogram, file>>
RatioLoaded ==
    IF args.prog # "ratio" THEN {}
    ELSE (IF NLoads >= 1 THEN {<<hist1, filename1>>} ELSE {})
         \cup (IF NLoads >= 2 THEN {<<hist2, filename2>>} ELSE {})

WarnZero == "Warning: has zero events, cannot normalize"
NWarnZero == Cardinality({k \in 1..Len(console) : console[k] = WarnZero})

\* the load_histogram calls made so far, in order: <<"load", file, "hist" or "None">>
Loads == SelectSeq(events, LAMBDA e : e[1] = "load")

\* the positions in Loads of the calls that returned a histogram, in order
OkIdx == SelectSeq([j \in 1..Len(Loads) |-> j], LAMBDA j : Loads[j][3] = "hist")

\* operation name is among the events
Executed(name) == \E k \in 1..Len(events) : events[k][1] = name

\* file f is missing, cannot be opened, or holds the name under neither prefix
Unloadable(f) == ~(HasIn(f, MiniDir) \/ HasIn(f, FullDir))

\* the lines load_histogram prints when it returns None
LoadErrors == {"Error: File not found", "Error: Cannot open file", "Error: Histogram not found"}

\* grid run: the <<decay type, ctau>> combinations, channel-major
Combos ==
    LET dts == decay_types_of(args)
        C   == Len(args.ctaus)
    IN  [k \in 1..(Len(dts) * C) |->
            <<dts[((k - 1) \div C) + 1], args.ctaus[((k - 1) % C) + 1]>>]

\* the file of combination p
ComboFile(p) == grid_construct_filename(GluinoMass, NeutralinoMass, p[2], p[1], Era)

\* the row label the spec gives combination p
Display ==
    [c \in {"0p1mm", "1mm", "1000mm", "10000mm", "10mm", "100mm", "0p01mm", "1p5mm",
            "p5mm", ""} |->
        CASE c = "0p1mm"   -> <<"0", ".", "1">>
          [] c = "1mm"     -> <<"1">>
          [] c = "1000mm"  -> <<"1", "k">>
          [] c = "10000mm" -> <<"1", "0", "k">>
          [] c = "10mm"    -> <<"1", "0">>
          [] c = "100mm"   -> <<"1", "0", "0">>
          [] c = "0p01mm"  -> <<"0", ".", "0", "1">>
          [] c = "1p5mm"   -> <<"1", ".", "5">>
          [] c = "p5mm"    -> <<".", "5">>
          [] c = ""        -> <<>>]
RowLabel(p) == Display[p[2]] \o <<" ", "(", IF p[1] = "lightDecay" THEN "L" ELSE "H", ")">>

-----------------------------------------------------------------------------
(* C1  create_ratio_plot: bin i of the ratio is numerator.bin(i) /          *)
(* denominator.bin(i) where the denominator bin is not 0, and 0 where it is. *)

SameBinning(a, b) == a.nb = b.nb /\ a.xmin = b.xmin /\ a.xmax = b.xmax

\* C1: for identically binned numerator and denominator every bin of the ratio
\* histogram is the quotient of their bins, computed in double precision and
\* held in the cell type of the histogram (single precision for a TH1F, the
\* double quotient itself for a TH1D), or 0 where the denominator bin is 0.
C1_RatioIsStoredQuotient ==
    (ratio_hist # None /\ SameBinning(hist1, hist2)) =>
        \A i \in 1..hist1.nb :
            GetBinContent(ratio_hist, i) =
                IF GetBinContent(hist2, i) # FZero
                THEN StoreAs(hist1.kind, FDiv(GetBinContent(hist1, i), GetBinContent(hist2, i)))
                ELSE FZero

\* C1 witness: a ratio was built from identically binned histograms, with a
\* denominator bin that is 0 and one that is not
C1_Witness ==
    /\ ratio_hist # None /\ SameBinning(hist1, hist2)
    /\ \E i, j \in 1..hist1.nb :
          /\ GetBinContent(hist2, i) = FZero /\ GetBinContent(ratio_hist, i) = FZero
          /\ GetBinContent(hist1, i) # FZero
          /\ GetBinContent(hist2, j) # FZero /\ GetBinContent(ratio_hist, j) # FZero
          /\ GetBinContent(ratio_hist, j) # GetBinContent(hist1, j)

-----------------------------------------------------------------------------
(* C2  load_histogram of the ratio builder, first bin V > 0: the returned   *)
(* histogram has first bin 1.0 and every other bin original.bin(i) / V.     *)

\* C2 as stated: a histogram loaded from a file whose first bin V is positive
\* has first bin 1.0 and every other bin equal to the original bin divided by V
\* (the quotient as the histogram's cell type holds it).
C2_NormalizedExactly ==
    \A l \in RatioLoaded :
        (l[1] # None /\ FPos(GetBinContent(Found(l[2]), 1))) =>
            /\ GetBinContent(l[1], 1) = FOne
            /\ \A i \in 2..l[1].nb :
                  GetBinContent(l[1], i) =
                      StoreAs(l[1].kind,
                              FDiv(GetBinContent(Found(l[2]), i), GetBinContent(Found(l[2]), 1)))

-----------------------------------------------------------------------------
(* C3  load_histogram of the ratio builder, first bin 0: the histogram is   *)
(* returned with the contents read, a warning is printed, nothing raised.   *)

\* C3: a load from a file whose histogram has first bin 0 returns a histogram
\* (not None) with exactly the cells of the file's histogram; one warning has
\* been printed per load that skipped the normalization; and nothing was
\* raised: no traceback is printed once the loads have begun.
C3_ZeroFirstBinUnchanged ==
    /\ \A l \in RatioLoaded :
          ((HasIn(l[2], MiniDir) \/ HasIn(l[2], FullDir))
             /\ GetBinContent(Found(l[2]), 1) = FZero) =>
                 /\ l[1] # None
                 /\ l[1].c = Found(l[2]).c
                 /\ NWarnZero >= 1
    /\ args.prog = "ratio" =>
          /\ NWarnZero =
                Cardinality({k \in 1..NLoads :
                    LET f == <<filename1, filename2>>[k]
                    IN  /\ HasIn(f, MiniDir) \/ HasIn(f, FullDir)
                        /\ ~FPos(GetBinContent(Found(f), 1))})
          /\ NLoads >= 1 =>
                \A k \in 1..Len(console) : console[k] # "Traceback: FileNotFoundError"

\* C3 witness: the numerator was read from a histogram with first bin 0 and the
\* run went on to save the plot
C3_Witness ==
    /\ args.prog = "ratio" /\ pc = "exit" /\ status = "0"
    /\ HasIn(filename1, MiniDir)
    /\ GetBinContent(Found(filename1), 1) = FZero
    /\ hist1.c = Found(filename1).c
    /\ NWarnZero = 1

-----------------------------------------------------------------------------
(* C4  load_histogram of the ratio builder: a histogram returned has first  *)
(* bin 1.0, or its first bin was zero in the file.                          *)

\* C4 as stated: every histogram the ratio builder's loader returns has first
\* bin 1.0, or had first bin 0 in the file and a warning was printed; there is
\* no other outcome.
C4_FirstBinOneOrZeroInFile ==
    \A l \in RatioLoaded :
        l[1] # None =>
            \/ GetBinContent(l[1], 1) = FOne
            \/ GetBinContent(Found(l[2]), 1) = FZero /\ NWarnZero >= 1

-----------------------------------------------------------------------------
(* C5  create_2d_histogram: B columns, N rows, row k the k-th loaded        *)
(* histogram under the k-th generated label.                                *)

SharedBins == \A k \in 1..Len(histograms) : histograms[k].nb = histograms[1].nb

\* the grid has B columns and N rows; row k holds Stored(bin x of the k-th
\* histogram loaded), which is the histogram of the k-th combination whose load
\* succeeded, and carries that combination's label
GridRowsAre(Stored(_)) ==
    (args.prog = "grid" /\ hist_2d # None /\ SharedBins) =>
        LET N == Len(histograms)
            B == histograms[1].nb
        IN  /\ N >= 1 /\ hist_2d.nx = B /\ hist_2d.ny = N
            /\ Len(OkIdx) = N
            /\ \A k \in 1..N :
                  LET p == Combos[OkIdx[k]]
                  IN  /\ histograms[k].c = Found(ComboFile(p)).c
                      /\ hist_2d.ylab[k] = RowLabel(p)
                      /\ hist_2d.ylab[k] = valid_labels[k]
                      /\ \A x \in 1..B :
                            hist_2d.c[<<x, k>>] = Stored(GetBinContent(histograms[k], x))

SameValue(x) == x

\* C5 as stated: for N >= 1 loaded histograms sharing bin count B the grid has
\* B columns and N rows, cell (x, k) equals bin x of the k-th input, and row k
\* has the k-th generated label, rows in load order.
C5_GridCellsEqualInputs == GridRowsAre(SameValue)

\* C5 amended: the same, except that cell (x, k) is bin x of the k-th input
\* rounded to single precision (the grid is a TH2F); it equals the input bin
\* whenever that is representable in single precision.
C5_GridCellsAreFloatOfInputs == GridRowsAre(FToFloat)

\* C5 witness: a grid of two rows with different contents, built from a run in
\* which another load failed
C5_Witness ==
    /\ args.prog = "grid" /\ hist_2d # None /\ SharedBins
    /\ Len(histograms) = 2 /\ Len(Loads) > 2
    /\ hist_2d.c[<<1, 1>>] # hist_2d.c[<<1, 2>>]
    /\ hist_2d.c[<<1, 1>>] = GetBinContent(histograms[1], 1)
    /\ hist_2d.ylab[1] # hist_2d.ylab[2]

-----------------------------------------------------------------------------
(* C6  grid builder, main: no successful load - exit status 1, no grid, no  *)
(* image.                                                                   *)

AllLoadsFailed == \A k \in 1..Len(Loads) : Loads[k][3] = "None"

\* C6: in a grid run in which every load so far has failed no image has been
\* written and neither create_2d_histogram nor save_2d_plot has been executed
\* or is about to be, and once such a run has exited its status is 1.
C6_NoLoadNoOutput ==
    (args.prog = "grid" /\ AllLoadsFailed) =>
        /\ plots = {}
        /\ ~Executed("create_2d_histogram") /\ ~Executed("save_2d_plot")
        /\ pc \notin {"create", "save"}
        /\ pc = "exit" => status = "1"

\* C6 witness: a grid run that attempted several loads, all failed, and exited
\* with status 1
C6_Witness ==
    /\ args.prog = "grid" /\ pc = "exit" /\ status = "1"
    /\ Len(Loads) >= 2 /\ AllLoadsFailed
    /\ plots = {}

-----------------------------------------------------------------------------
(* C7  ratio builder, main: a histogram that cannot be loaded - exit status *)
(* 1 after a diagnostic, save_ratio_plot never executed.                    *)

\* C7: in a ratio run whose numerator or denominator file is missing, cannot be
\* opened or lacks the name, no image is ever written and save_ratio_plot is
\* never executed; once the run has exited its status is 1 and the last line
\* printed is a diagnostic, which after the two loads is "Failed to load one or
\* both histograms".
C7_FailedLoadAborts ==
    (args.prog = "ratio" /\ (Unloadable(filename1) \/ Unloadable(filename2))) =>
        /\ plots = {}
        /\ ~Executed("save_ratio_plot")
        /\ pc # "save"
        /\ pc = "exit" =>
              /\ status = "1"
              /\ Len(console) >= 1
              /\ Len(Loads) = 2 =>
                    console[Len(console)] = "Error: Failed to load one or both histograms"

\* C7 witness: the numerator was loaded, the denominator was not, and the run
\* exited with status 1
C7_Witness ==
    /\ args.prog = "ratio" /\ pc = "exit" /\ status = "1"
    /\ Len(Loads) = 2 /\ hist1 # None /\ hist2 = None
    /\ Unloadable(filename2)
    /\ plots = {}

-----------------------------------------------------------------------------
(* C8  grid builder, main: a failed load is skipped; all combinations are   *)
(* attempted once, channel-major; one success is enough for an image.       *)

ConstructorFailed == \E k \in 1..Len(console) : console[k] = "Traceback: FileNotFoundError"

\* C8: in a grid run the loads made so far are those of the first combinations
\* in channel-major order, one load per combination; a run that is past the
\* loop has attempted every combination; inside the loop the position of the
\* loop is the combination after the last one loaded, whatever the loads so far
\* returned, and right after a failed load the loop can take its next step;
\* the run has an exit status only when main is over; and a run that exits with
\* at least one histogram loaded has written exactly one image, saved once,
\* with status 0.
C8_FailuresSkipped ==
    args.prog = "grid" =>
        LET loads  == Loads
            combos == Combos
        IN
        /\ Len(loads) <= Len(combos)
        /\ \A k \in 1..Len(loads) : loads[k][2] = ComboFile(combos[k])
        /\ Len(histograms) = Len(OkIdx)
        /\ (pc \in {"create", "save", "exit"} /\ ~ConstructorFailed) =>
              Len(loads) = Len(combos)
        /\ pc = "loop" =>
              /\ ci \in 1..Len(args.ctaus)
              /\ (di - 1) * Len(args.ctaus) + ci = Len(loads) + 1
              /\ (Len(loads) >= 1 /\ loads[Len(loads)][3] = "None") =>
                    ENABLED (grid_load_next \/ grid_check_loaded)
        /\ status = "running" <=> pc # "exit"
        /\ (pc = "exit" /\ Len(OkIdx) >= 1) =>
              /\ status = "0"
              /\ Cardinality(plots) = 1
              /\ Cardinality({k \in 1..Len(events) : events[k][1] = "save_2d_plot"}) = 1

\* C8 witness: a run over both channels whose first load failed and a later one
\* succeeded, exited with status 0 and one image
C8_Witness ==
    /\ args.prog = "grid" /\ pc = "exit" /\ status = "0"
    /\ Len(Loads) = 4 /\ Loads[1][3] = "None" /\ Loads[4][3] = "None"
    /\ Len(OkIdx) >= 1
    /\ Cardinality(plots) = 1

-----------------------------------------------------------------------------
(* C9  both loaders: None exactly when the file is missing, cannot be       *)
(* opened, or has the name under neither prefix; else a detached copy.      *)

\* C9 as stated: every load, of either builder, returned None exactly when its
\* file is missing, cannot be opened or holds the name under neither of the two
\* prefixes, each None came with one console message, and every histogram
\* returned is detached from its file.
C9_NullExactlyWhenAbsent ==
    /\ \A k \in 1..Len(Loads) : (Loads[k][3] = "None") <=> Unloadable(Loads[k][2])
    /\ Cardinality({k \in 1..Len(console) : console[k] \in LoadErrors})
          = Cardinality({k \in 1..Len(Loads) : Loads[k][3] = "None"})
    /\ \A k \in 1..Len(histograms) : histograms[k].dir = None
    /\ \A l \in RatioLoaded : l[1] # None => l[1].dir = None

-----------------------------------------------------------------------------
(* C10  the two loaders on the same file: both None, or the same contents.  *)

\* what the grid builder's loader returns for file f
GridLoad(f) == grid_load_histogram(fs, f, HistName).hist

\* the load of the ratio builder that has just returned: <<histogram, file>>
JustLoaded ==
    IF args.prog # "ratio" THEN {}
    ELSE IF pc = "load2" THEN {<<hist1, filename1>>}
    ELSE IF pc = "check" THEN {<<hist2, filename2>>}
    ELSE {}

\* C10 as stated: for every file a ratio run loads, the ratio builder's loader
\* and the grid builder's loader both return None or both return a histogram
\* with the same bin contents.
C10_LoadersAgree ==
    \A l \in JustLoaded :
        \/ l[1] = None /\ GridLoad(l[2]) = None
        \/ /\ l[1] # None /\ GridLoad(l[2]) # None
           /\ \A i \in 1..l[1].nb : GetBinContent(l[1], i) = GetBinContent(GridLoad(l[2]), i)

\* C10 amended: the grid builder's loader returns None when the ratio builder's
\* does, and also when the name is only under HSCPFullAODAnalyzer/ (where the
\* ratio builder's returns a histogram); when both return a histogram, the grid
\* builder's has the file's contents and the ratio builder's has every cell
\* multiplied by 1.0 / first bin if the first bin is positive, and the same
\* contents otherwise.
C10_LoadersAgreeUpToNormalization ==
    \A l \in JustLoaded :
        LET g == GridLoad(l[2])
        IN  /\ l[1] = None => g = None
            /\ g = None <=> (l[1] = None \/ ~HasIn(l[2], MiniDir))
            /\ (l[1] # None /\ g # None) =>
                  LET V == GetBinContent(g, 1)
                  IN  /\ g.c = Found(l[2]).c
                      /\ l[1].nb = g.nb
                      /\ \A i \in DOMAIN g.c :
                            l[1].c[i] = IF FPos(V)
                                        THEN StoreAs(g.kind, FMul(FDiv(FOne, V), g.c[i]))
                                        ELSE g.c[i]

\* C10 witness: a ratio run whose numerator file gives both loaders a
\* histogram, with different contents, and whose denominator file gives only
\* the ratio builder's loader one
C10_Witness ==
    /\ args.prog = "ratio" /\ pc = "check"
    /\ hist1 # None /\ GridLoad(filename1) # None
    /\ hist1.c # GridLoad(filename1).c
    /\ hist2 # None /\ GridLoad(filename2) = None

-----------------------------------------------------------------------------
(* C11  file handles: what a load opened it has closed when it returns.     *)

\* event k is a TFile.Open that handed the loader an open file
OpenedAt(k) == events[k][1] = "Open" /\ events[k][3] = "ok"

\* C11: every handle a load opened is closed by a Close of the same file
\* before the call returns: the Close is the next file operation recorded,
\* ahead of any other load, transform or render; so in every state between the
\* steps of main no handle is open.
C11_HandlesClosedOnReturn ==
    /\ \A k \in 1..Len(events) :
          OpenedAt(k) => (k < Len(events) /\ events[k + 1] = <<"Close", events[k][2]>>)
    /\ Cardinality({k \in 1..Len(events) : OpenedAt(k)})
          = Cardinality({k \in 1..Len(events) : events[k][1] = "Close"})

\* C11 witness: a ratio run that opened a file holding the name and a file
\* lacking it, and closed both
C11_Witness ==
    /\ args.prog = "ratio" /\ Len(Loads) = 2
    /\ hist1 # None /\ hist2 = None
    /\ FileState(fs, filename2).st = "ok"
    /\ Cardinality({k \in 1..Len(events) : events[k][1] = "Close"}) = 2

-----------------------------------------------------------------------------
(* C12  ratio builder: exit status 1 on a malformed --y-range or a failed   *)
(* load, else one image and exit status 0.                                  *)

\* --y-range is not a comma-separated list of numbers
BadYRange == args.y_range # <<>> /\ \E k \in 1..Len(args.y_range) : ~IsFloat(args.y_range[k])

\* C12: a ratio run has an exit status exactly when main is over; with a
\* malformed --y-range it never attempts a load or opens a file and its exit
\* status is 1; with a numerator or denominator that cannot be loaded its exit
\* status is 1; in every other case its exit status is 0 and it has saved
\* exactly one image, in one save_ratio_plot.
C12_RatioExitStatus ==
    args.prog = "ratio" =>
        /\ status = "running" <=> pc # "exit"
        /\ BadYRange => events = <<>>
        /\ pc = "exit" =>
              IF BadYRange \/ Unloadable(filename1) \/ Unloadable(filename2)
              THEN status = "1" /\ plots = {}
              ELSE /\ status = "0"
                   /\ Cardinality(plots) = 1
                   /\ Cardinality({k \in 1..Len(events) : events[k][1] = "save_ratio_plot"}) = 1

\* C12 witness: a run given a malformed --y-range and two loadable files has
\* exited with status 1 without touching them
C12_Witness ==
    /\ args.prog = "ratio" /\ pc = "exit" /\ status = "1"
    /\ BadYRange
    /\ ~Unloadable(filename1) /\ ~Unloadable(filename2)
    /\ events = <<>>

-----------------------------------------------------------------------------
(* C13  construct_filename: gluino<mass>_chi10<otherMass>_<decayLength>_    *)
(* <channel>_<era>.root, the same in both builders.                         *)

\* the decimal text of the masses tried
MassText ==
    [n \in FnMasses |->
        CASE n = 0    -> <<"0">>
          [] n = 7    -> <<"7">>
          [] n = 1300 -> <<"1", "3", "0", "0">>
          [] n = 1800 -> <<"1", "8", "0", "0">>
          [] n = -5   -> <<"-", "5">>]

\* C13: for every masses, decay length, channel and era the ratio builder's
\* construct_filename returns gluino<mass>_chi10<otherMass>_<decayLength>_
\* <channel>_<era>.root, with the masses in decimal, and the grid builder's
\* returns the same name.
C13_FileNameFormat ==
    (args.prog = "fn" /\ pc # "name") =>
        /\ events[1] = <<"ratio",
                         <<"gluino">> \o MassText[args.gluino_mass] \o <<"_chi10">>
                             \o MassText[args.neutralino_mass]
                             \o <<"_", args.ctau, "_", args.decay_type, "_", args.era, ".root">>>>
        /\ events[2][1] = "grid"
        /\ events[2][2] = events[1][2]

\* C13 witness: the default file of the ratio builder's numerator has been named
C13_Witness ==
    /\ args.prog = "fn" /\ pc # "name"
    /\ args.gluino_mass = 1800 /\ args.neutralino_mass = 1300
    /\ events[1][2] = <<"gluino", "1", "8", "0", "0", "_chi10", "1", "3", "0", "0", "_",
                        "0p1mm", "_", "lightDecay", "_", Era, ".root">>

-----------------------------------------------------------------------------
(* C17  grid builder labels: "<d> (<c>)", d abbreviated for 1000mm and      *)
(* 10000mm, c the letter of the channel.                                    *)

\* C17: the label generated for a decay length and a channel is "<d> (<c>)":
\* d is "1k" for "1000mm", "10k" for "10000mm", and otherwise the decay-length
\* string without "mm" and with "." for "p"; c is "L" for lightDecay and "H"
\* for heavyDecay.
C17_LabelFormat ==
    (args.prog = "fn" /\ pc = "exit") =>
        /\ Len(valid_labels) = 1
        /\ valid_labels[1] =
              Display[args.ctau]
                  \o <<" ", "(", CASE args.decay_type = "lightDecay" -> "L"
                                   [] args.decay_type = "heavyDecay" -> "H", ")">>

\* C17 witness: the label "10k (H)" has been generated
C17_Witness ==
    /\ args.prog = "fn" /\ pc = "exit"
    /\ args.ctau = "10000mm" /\ args.decay_type = "heavyDecay"
    /\ valid_labels = <<<<"1", "0", "k", " ", "(", "H", ")">>>>

-----------------------------------------------------------------------------
(* C14  the plotters' constructors: base_dir/plots exists afterwards.       *)

\* the plotter has been constructed, or its construction has failed
PastConstructor ==
    /\ pc \notin {"parse", "construct"}
    /\ \A k \in 1..Len(console) :
          console[k] # "Error: --y-range must be a comma-separated list of numbers"

\* C14 as stated: once the constructor of either plotter has run, the output
\* directory base_dir/plots exists and no error was raised, whatever existed
\* before, base_dir absent included.
C14_PlotsDirEnsured ==
    (args.prog \in {"ratio", "grid"} /\ PastConstructor) =>
        /\ "plots" \in dirs
        /\ ~ConstructorFailed

-----------------------------------------------------------------------------
(* C15  the grid's X axis is the first loaded histogram's; one Y bin per    *)
(* successful load.                                                         *)

\* C15: the grid has the bin count and the range of the X axis of the first
\* histogram that was loaded, and every non-empty bin label of it, also when
\* loads before it failed; and it has one Y bin per successful load.
C15_GridAxes ==
    (args.prog = "grid" /\ hist_2d # None) =>
        /\ Len(OkIdx) >= 1
        /\ LET first == Found(ComboFile(Combos[OkIdx[1]]))
           IN  /\ hist_2d.nx = first.nb
               /\ hist_2d.xmin = first.xmin /\ hist_2d.xmax = first.xmax
               /\ \A x \in 1..first.nb :
                     first.lab[x] # "" => hist_2d.xlab[x] = first.lab[x]
        /\ hist_2d.ny = Len(OkIdx)

\* C15 witness: the first combination failed to load, and the first histogram
\* loaded has fewer bins than a later one
C15_Witness ==
    /\ args.prog = "grid" /\ hist_2d # None
    /\ Loads[1][3] = "None"
    /\ Len(histograms) >= 2
    /\ histograms[1].nb < histograms[2].nb
    /\ hist_2d.nx = histograms[1].nb
    /\ hist_2d.xlab[1] = "AllEvents"

-----------------------------------------------------------------------------
(* C16  one pass: loads, then the transform, then at most one render; no    *)
(* file opened twice, no load retried.                                      *)

\* the positions in events of the operations named name
At(name) == {k \in 1..Len(events) : events[k][1] = name}
Renders == At("save_ratio_plot") \cup At("save_2d_plot")

\* the stage of the pipeline an event belongs to
Stage(e) ==
    IF e[1] \in {"load", "Open", "Close"} THEN 1
    ELSE IF e[1] \in {"create_ratio_plot", "create_2d_histogram"} THEN 2
    ELSE 3

\* loads come before the transform, the transform before the render, and there
\* is at most one transform and one render: the events start with loads, and
\* a transform or a render comes right after the stage before it
PipelineOrder ==
    /\ events # <<>> => Stage(events[1]) = 1
    /\ \A k \in 1..(Len(events) - 1) :
          \/ Stage(events[k]) = 1 /\ Stage(events[k + 1]) \in {1, 2}
          \/ Stage(events[k]) = 2 /\ Stage(events[k + 1]) = 3

\* C16 as stated: in a run of either builder every file is opened at most
\* once, a file whose load failed is not loaded again, all loads precede the
\* transform, the transform precedes the render, and there is at most one
\* render.
C16_SinglePass ==
    args.prog \in {"ratio", "grid"} =>
        /\ \A j, k \in At("Open") : events[j][2] = events[k][2] => j = k
        /\ \A j, k \in 1..Len(Loads) :
              (j < k /\ Loads[j][3] = "None") => Loads[k][2] # Loads[j][2]
        /\ PipelineOrder

\* the files the run was asked for, in order: numerator and denominator, or
\* one per (channel, decay length) of the lists
Requested ==
    IF args.prog = "ratio" THEN <<filename1, filename2>>
    ELSE [k \in 1..Len(Combos) |-> ComboFile(Combos[k])]

\* C16 amended: every requested input (numerator and denominator; each
\* (channel, decay length) position of the lists) is loaded at most once, in
\* order, and its load opens its file at most once, failed or not; a file that
\* two inputs name is opened once for each of them.  All loads precede the
\* transform, the transform precedes the render, and there is at most one
\* render.
C16_SinglePassPerInput ==
    args.prog \in {"ratio", "grid"} =>
        LET loads     == Loads
            requested == Requested
        IN
        /\ Len(loads) <= Len(requested)
        /\ \A k \in 1..Len(loads) : loads[k][2] = requested[k]
        /\ \A k \in 1..Len(events) :
              events[k][1] = "Open" =>
                  /\ k > 1
                  /\ events[k - 1][1] = "load" /\ events[k - 1][2] = events[k][2]
        /\ PipelineOrder

\* C16 witness: a ratio run whose numerator and denominator are the same file
\* opened it twice and saved its image
C16_Witness ==
    /\ args.prog = "ratio" /\ pc = "exit" /\ status = "0"
    /\ filename1 = filename2
    /\ Cardinality(At("Open")) = 2
    /\ Cardinality(Renders) = 1

-----------------------------------------------------------------------------
(* C18  loaded histograms are not changed by the divide, repack and render  *)
(* steps.                                                                   *)

\* C18: no step of main after a histogram's load changes that histogram: the
\* numerator once the denominator is being loaded, both from the check on, and
\* every histogram already in the grid builder's list.  A histogram of the
\* grid builder has the contents of its file, and one of the ratio builder
\* differs from its file only where the loader normalized it, which takes a
\* positive first bin.
C18_InputsReadOnly ==
    [][/\ (args.prog = "ratio" /\ pc = "load2") => hist1' = hist1
       /\ (args.prog = "ratio" /\ pc \in {"check", "create", "save"}) =>
             (hist1' = hist1 /\ hist2' = hist2)
       /\ \A k \in 1..Len(histograms) :
             /\ Len(histograms') >= k /\ histograms'[k] = histograms[k]
             /\ histograms[k].c = Found(ComboFile(Combos[OkIdx[k]])).c
       /\ \A l \in RatioLoaded :
             (l[1] # None /\ l[1].c # Found(l[2]).c) => FPos(GetBinContent(Found(l[2]), 1))
      ]_vars

\* C18 witness: a ratio run has divided and rendered; the ratio differs from
\* the numerator, which still is the normalized histogram
C18_Witness ==
    /\ args.prog = "ratio" /\ pc = "exit" /\ status = "0"
    /\ ratio_hist # None /\ ratio_hist.c # hist1.c
    /\ hist1.c # Found(filename1).c
    /\ GetBinContent(hist1, 1) = FOne

-----------------------------------------------------------------------------
(* C19  the grid builder's loop: histograms and labels stay paired.         *)

\* C19: at every point of a grid run the list of histograms and the list of
\* labels have the same length, one entry per successful load, and the i-th
\* label is the label of the combination whose file the i-th histogram was
\* read from.
C19_ListsPaired ==
    args.prog = "grid" =>
        /\ Len(histograms) = Len(valid_labels)
        /\ Len(histograms) = Len(OkIdx)
        /\ \A i \in 1..Len(OkIdx) :
              LET p == Combos[OkIdx[i]]
              IN  /\ i <= Len(valid_labels) /\ valid_labels[i] = RowLabel(p)
                  /\ i <= Len(histograms)
                  /\ histograms[i] = CloneDetached(Found(ComboFile(p)))

\* C19 witness: inside the loop, after a failed load and then a successful one
C19_Witness ==
    /\ args.prog = "grid" /\ pc = "loop" /\ di <= Len(decay_types_of(args))
    /\ Len(Loads) = 2 /\ Loads[1][3] = "None" /\ Loads[2][3] = "hist"
    /\ Len(histograms) = 1 /\ Len(valid_labels) = 1

-----------------------------------------------------------------------------
(* C20  the ratio's first bin when both first bins in the files are         *)
(* positive.                                                                *)

\* C20 as stated: when the numerator's and the denominator's first bins in the
\* files are both positive, the first bin of the ratio histogram is exactly 1.
C20_RatioFirstBinOne ==
    (args.prog = "ratio" /\ ratio_hist # None
       /\ FPos(GetBinContent(Found(filename1), 1))
       /\ FPos(GetBinContent(Found(filename2), 1))) =>
          GetBinContent(ratio_hist, 1) = FOne

-----------------------------------------------------------------------------
(* C21  ntuplizer configuration: a non-empty global tag for every (year,    *)
(* era) the era message lists, and RuntimeError for data without an era.    *)

\* the eras the message of the era check lists for each year
ListedEras ==
    [y \in CfgYears |->
        CASE y = 2017 -> {"B", "C", "D", "E", "F"}
          [] y = 2018 -> {"A", "B", "C", "D"}
          [] y = 2022 -> {"C", "D", "E", "F", "G"}
          [] y = 2023 -> {"C", "D"}
          [] y = 2024 -> {"C", "D", "E", "F", "G", "H", "I"}
          [] OTHER    -> {}]

\* C21: in a run of the configuration, for data and for simulation, once the
\* global tag is selected it is a non-empty string whenever the era is one the
\* era message lists for the year, and that tag is the one the conditions are
\* set with; and for data with an empty era no process is ever constructed:
\* the run stops at the era check with RuntimeError.
C21_GlobalTagSelected ==
    args.prog = "cfg" =>
        /\ (pc # "gtag" /\ args.era \in ListedEras[args.year]) =>
              /\ GTAG # ""
              /\ \A k \in 1..Len(events) : events[k] = <<"GlobalTag", GTAG>>
              /\ pc = "conditions" => events # <<>>
        /\ (args.isData /\ args.era = "") =>
              /\ process = "undefined"
              /\ pc \in {"gtag", "print", "era", "exit"}
              /\ pc = "exit" =>
                    /\ status = "1"
                    /\ console[Len(console)] = "Traceback: RuntimeError"
        /\ process # "undefined" => pc = "conditions"

\* C21 witness: simulation of 2023, era C, has its conditions set with the tag
\* of that era
C21_Witness ==
    /\ args.prog = "cfg" /\ ~args.isData /\ args.year = 2023 /\ args.era = "C"
    /\ pc = "conditions" /\ process = "HSCPAnalysis"
    /\ GTAG = "130X_mcRun3_2023_realistic_v14"
    /\ events = <<<<"GlobalTag", GTAG>>>>

====
